---- MODULE Spec2Model ----
(***************************************************************************)
(* SmartMarketMaker (src/strategy2.py): a tick-driven market-making        *)
(* strategy.  On every due tick it cancels its active orders, builds a     *)
(* BUY/SELL proposal from the latest candle indicators, the reference      *)
(* price and the balances, passes it through the budget checker, submits   *)
(* what survives and writes the next refresh timestamp.                    *)
(*                                                                         *)
(* Units.  Spreads and volatilities are integers in units of 1e-5, prices  *)
(* of orders in units of 1e-5 quote, amounts in units of 1e-3 base.        *)
(***************************************************************************)
EXTENDS Integers, Sequences, FiniteSets, TLC

\* ---- bounds of the model ------------------------------------------------
MaxTime == 16
MaxCandles == 15
MaxOrders == 4
MaxVolatilitySteps == 50
MaxBalance == 5

\* ---- class attributes (strategy2.py:16-21) ------------------------------
SpreadScale == 100000
base_spread == 100
min_spread == 50
max_spread == 500
order_refresh_time == 15
base_order_amount == 10
rsi_length == 14
volatility_window == 10

\* a float NaN produced by pandas (RSI warm-up rows, rolling std warm-up rows)
NaN == -1
\* a value the connector could not supply (None or Decimal('NaN'))
Unavailable == -2

\* ---- inputs the environment supplies to one tick ------------------------
\* the candle feed at the moment of the tick: number of candles, and the
\* RSI / rolling std of the latest row once enough candles are present
RsiValues == {24, 25, 75, 76}
VolatilityValues == {200}
\* candle counts: the empty window, both sides of each lookback, and every
\* count from the first one with a computable RSI up to the bound
CandleCounts ==
    {0, volatility_window - 1, volatility_window, rsi_length - 1, rsi_length}
      \cup (rsi_length + 1)..MaxCandles
CandleSnapshots ==
    {[n |-> k, rsi |-> NaN, vol |-> NaN] : k \in {c \in CandleCounts : c < volatility_window}}
      \cup {[n |-> k, rsi |-> NaN, vol |-> v] :
               k \in {c \in CandleCounts : c >= volatility_window /\ c <= rsi_length},
               v \in VolatilityValues}
      \cup {[n |-> k, rsi |-> r, vol |-> v] :
               k \in {c \in CandleCounts : c > rsi_length},
               r \in RsiValues, v \in VolatilityValues}
PriceInputs == {Unavailable, 2000}
BalanceInputs ==
    { [base |-> Unavailable, quote |-> 8000],
      [base |-> 1, quote |-> 2000],
      [base |-> 1, quote |-> 0] }
BudgetResults == {"funded", "reduced", "empty"}

VARIABLES
    current_timestamp,   \* the clock value the framework handed to the strategy
    ready_to_trade,      \* framework flag: all connectors ready
    create_timestamp,    \* class attribute: next time a refresh is allowed
    active_orders,       \* ids of this strategy's orders active on the connector
    cancel_requested,    \* active orders for which cancel() was called
    next_order_id,       \* id the connector gives to the next submitted order
    calls,               \* what the on_tick of the current clock value did, in order
    tick,                \* inputs and outcome of the on_tick of the current clock value
    last_reconcile,      \* {} or {t}: t is the time of the latest on_tick that reached line 55
    eval                 \* the latest evaluation of one method on its own: arguments and result

vars == <<current_timestamp, ready_to_trade, create_timestamp, active_orders,
          cancel_requested, next_order_id, calls, tick, last_reconcile, eval>>

\* ---- helpers -------------------------------------------------------------
Min(a, b) == IF a < b THEN a ELSE b
Max(a, b) == IF a > b THEN a ELSE b

RECURSIVE SetToSeq(_)
SetToSeq(S) ==
    IF S = {} THEN <<>>
    ELSE LET m == CHOOSE x \in S : \A y \in S : x <= y
         IN <<m>> \o SetToSeq(S \ {m})

Call(op, id, trading_pair, amount, order_type, price) ==
    [op |-> op, id |-> id, trading_pair |-> trading_pair, amount |-> amount,
     order_type |-> order_type, price |-> price]

OrderCandidateMarket(side, amount, price) ==
    [trading_pair |-> "ETH-USDT", is_maker |-> FALSE, order_type |-> "MARKET",
     order_side |-> side, amount |-> amount, price |-> price]
OrderCandidate(side, amount, price) ==
    [trading_pair |-> "ETH-USDT", is_maker |-> TRUE, order_type |-> "LIMIT",
     order_side |-> side, amount |-> amount, price |-> price]

NoTick ==
    [status |-> "none", error |-> "none", candles |-> 0, data_available |-> FALSE,
     rsi |-> NaN, budget |-> "none", proposal |-> <<>>, adjusted |-> <<>>,
     rejected |-> {}, active0 |-> {}]

NoEval == [fn |-> "none", args |-> <<>>, out |-> <<>>]

\* ---- the strategy (src/strategy2.py) ------------------------------------

\* on_tick, line 47: the refresh is due and the strategy is ready
IsDueOneEarly(create_ts, now, ready) == create_ts <= now + 1 /\ ready
IsDueExactly(create_ts, now, ready) == create_ts = now /\ ready
IsDueStrict(create_ts, now, ready) == create_ts < now /\ ready
IsDueIgnoringReadiness(create_ts, now, ready) == create_ts <= now
IsDue(create_ts, now, ready) == create_ts <= now /\ ready

\* get_candles_with_indicators, lines 57-61, reduced to what create_proposal
\* reads of it: the number of rows, whether ta.rsi(length=14, append=True)
\* appended the RSI_14 column (it appends nothing to a series shorter than
\* the length), and the latest row.  The RSI of row k needs 14 price changes,
\* so it is NaN up to row 14; rolling(10).std() is NaN up to row 9.
get_candles_with_indicators_OffByOne(candles) ==
    [rows |-> candles.n,
     has_rsi |-> candles.n >= rsi_length,
     RSI_14 |-> IF candles.n < rsi_length THEN NaN ELSE candles.rsi,
     volatility |-> IF candles.n < volatility_window THEN NaN ELSE candles.vol]
get_candles_with_indicators(candles) ==
    [rows |-> candles.n,
     has_rsi |-> candles.n >= rsi_length,
     RSI_14 |-> IF candles.n <= rsi_length THEN NaN ELSE candles.rsi,
     volatility |-> IF candles.n < volatility_window THEN NaN ELSE candles.vol]

\* dynamic_spread, lines 63-64: min(max(base + 0.5 * volatility, min), max);
\* Python's min and max keep a NaN first argument
dynamic_spread_Unclamped(volatility) ==
    IF volatility = NaN THEN NaN
    ELSE Max(base_spread + (volatility * 5) \div 10, min_spread)
dynamic_spread(volatility) ==
    IF volatility = NaN THEN NaN
    ELSE Min(Max(base_spread + (volatility * 5) \div 10, min_spread), max_spread)

\* create_proposal, lines 84-85 and 88: the inventory ratio is a Decimal that
\* is compared with the floats 0.8 and 0.2; both floats lie slightly above the
\* decimal fractions, so ratio > 0.8 is exact while ratio < 0.2 also holds at
\* a ratio of exactly 1/5
InventorySkewed(base_balance, quote_balance, ref_price) ==
    LET base_value == base_balance * ref_price
        total_value == quote_balance + base_value
    IN IF total_value > 0
       THEN 10 * base_value > 8 * total_value \/ 10 * base_value <= 2 * total_value
       ELSE FALSE

\* create_proposal, lines 88-91
order_amount(base_balance, quote_balance, ref_price) ==
    IF InventorySkewed(base_balance, quote_balance, ref_price)
    THEN (base_order_amount * 5) \div 10
    ELSE base_order_amount

\* create_proposal, line 94: NaN compares false with everything
TrendTooStrongInclusive(rsi) == rsi # NaN /\ (rsi >= 75 \/ rsi <= 25)
TrendTooStrong(rsi) == rsi # NaN /\ (rsi > 75 \/ rsi < 25)

\* create_proposal, lines 78-79: ref_price * Decimal(1 - spread) and
\* ref_price * Decimal(1 + spread), in units of 1e-5; a NaN spread gives NaN
buy_price(ref_price, spread) ==
    IF spread = NaN THEN NaN ELSE ref_price * (SpreadScale - spread)
sell_price_Minus(ref_price, spread) ==
    IF spread = NaN THEN NaN ELSE ref_price * (SpreadScale - spread)
sell_price(ref_price, spread) ==
    IF spread = NaN THEN NaN ELSE ref_price * (SpreadScale + spread)

\* create_proposal, lines 66-106.  error names the statement that raises:
\*   line 73  iloc[-1] on an empty frame            (IndexError)
\*   line 74  latest["RSI_14"] without the column   (KeyError)
\*   line 78  None * Decimal, or line 85 Decimal('NaN') > 0 (price)
\*   line 84  Decimal + None, or line 85 Decimal('NaN') > 0 (balance)
create_proposal(candles, ref_price, balances) ==
    LET df == get_candles_with_indicators(candles)
        rsi == df.RSI_14
        spread == dynamic_spread(df.volatility)
        amount == order_amount(balances.base, balances.quote, ref_price)
    IN IF df.rows = 0 THEN [error |-> "IndexError", proposal |-> <<>>]
       ELSE IF ~df.has_rsi THEN [error |-> "KeyError", proposal |-> <<>>]
       ELSE IF ref_price = Unavailable
            THEN [error |-> "price_unavailable", proposal |-> <<>>]
       ELSE IF balances.base = Unavailable \/ balances.quote = Unavailable
            THEN [error |-> "balance_unavailable", proposal |-> <<>>]
       ELSE IF TrendTooStrong(rsi) THEN [error |-> "none", proposal |-> <<>>]
       ELSE [error |-> "none",
             proposal |-> << OrderCandidate("BUY", amount, buy_price(ref_price, spread)),
                             OrderCandidate("SELL", amount, sell_price(ref_price, spread)) >>]

\* adjust_proposal_to_budget, lines 108-109: the connector's budget checker in
\* all-or-none mode returns the candidates unchanged, both with a lower
\* amount, or none of them
adjust_proposal_to_budget(proposal, budget) ==
    IF budget = "empty" THEN <<>>
    ELSE IF budget = "reduced"
         THEN [i \in 1..Len(proposal) |->
                 [proposal[i] EXCEPT !.amount = proposal[i].amount - 1]]
    ELSE proposal

\* place_order, lines 115-119
place_order_SidesSwapped(order, id) ==
    IF order.order_side = "SELL"
    THEN <<Call("buy", id, order.trading_pair, order.amount, order.order_type, order.price)>>
    ELSE IF order.order_side = "BUY"
    THEN <<Call("sell", id, order.trading_pair, order.amount, order.order_type, order.price)>>
    ELSE <<>>
place_order(order, id) ==
    IF order.order_side = "SELL"
    THEN <<Call("sell", id, order.trading_pair, order.amount, order.order_type, order.price)>>
    ELSE IF order.order_side = "BUY"
    THEN <<Call("buy", id, order.trading_pair, order.amount, order.order_type, order.price)>>
    ELSE <<>>

\* place_orders, lines 111-113.  rejected holds the positions of the intents
\* whose submission the connector fails; buy() and sell() hand the order to
\* the connector and return, the failure arrives on the connector's event
\* channel, so the loop goes on whatever rejected is.
RECURSIVE place_orders_StopAtFailure(_, _, _)
place_orders_StopAtFailure(proposal, first_id, rejected) ==
    IF proposal = <<>> THEN <<>>
    ELSE IF 1 \in rejected THEN place_order(Head(proposal), first_id)
    ELSE place_order(Head(proposal), first_id)
           \o place_orders_StopAtFailure(Tail(proposal), first_id + 1,
                                         {i - 1 : i \in rejected})
RECURSIVE place_orders(_, _, _)
place_orders(proposal, first_id, rejected) ==
    IF proposal = <<>> THEN <<>>
    ELSE place_order(Head(proposal), first_id)
           \o place_orders(Tail(proposal), first_id + 1, {i - 1 : i \in rejected})

\* cancel_all_orders, lines 121-123
cancel_all_orders_SkipFirst(active) ==
    LET all == SetToSeq(active)
        ids == IF all = <<>> THEN <<>> ELSE Tail(all)
    IN [i \in 1..Len(ids) |-> Call("cancel", ids[i], "ETH-USDT", 0, "none", 0)]
cancel_all_orders(active) ==
    LET ids == SetToSeq(active)
    IN [i \in 1..Len(ids) |-> Call("cancel", ids[i], "ETH-USDT", 0, "none", 0)]

\* on_tick, lines 48-55: what a due tick does, in order, and the refresh
\* timestamp it leaves.  An exception of create_proposal leaves on_tick
\* after the cancels.
OnTickPlaceBeforeCancel(active, create_ts, now, error, adjusted, first_id, rejected) ==
    IF error # "none"
    THEN [calls |-> cancel_all_orders(active)
                      \o <<Call("create_proposal", 0, "none", 0, "none", 0)>>,
          create_timestamp |-> create_ts]
    ELSE [calls |-> <<Call("create_proposal", 0, "none", 0, "none", 0),
                      Call("adjust_proposal_to_budget", 0, "none", 0, "none", 0)>>
                      \o place_orders(adjusted, first_id, rejected)
                      \o cancel_all_orders(active)
                      \o <<Call("create_timestamp", now + order_refresh_time, "none", 0, "none", 0)>>,
          create_timestamp |-> now + order_refresh_time]
OnTickStampOnlyWhenPlacing(active, create_ts, now, error, adjusted, first_id, rejected) ==
    IF error # "none"
    THEN [calls |-> cancel_all_orders(active)
                      \o <<Call("create_proposal", 0, "none", 0, "none", 0)>>,
          create_timestamp |-> create_ts]
    ELSE IF adjusted = <<>>
    THEN [calls |-> cancel_all_orders(active)
                      \o <<Call("create_proposal", 0, "none", 0, "none", 0),
                           Call("adjust_proposal_to_budget", 0, "none", 0, "none", 0)>>,
          create_timestamp |-> create_ts]
    ELSE [calls |-> cancel_all_orders(active)
                      \o <<Call("create_proposal", 0, "none", 0, "none", 0),
                           Call("adjust_proposal_to_budget", 0, "none", 0, "none", 0)>>
                      \o place_orders(adjusted, first_id, rejected)
                      \o <<Call("create_timestamp", now + order_refresh_time, "none", 0, "none", 0)>>,
          create_timestamp |-> now + order_refresh_time]
OnTick(active, create_ts, now, error, adjusted, first_id, rejected) ==
    IF error # "none"
    THEN [calls |-> cancel_all_orders(active)
                      \o <<Call("create_proposal", 0, "none", 0, "none", 0)>>,
          create_timestamp |-> create_ts]
    ELSE [calls |-> cancel_all_orders(active)
                      \o <<Call("create_proposal", 0, "none", 0, "none", 0),
                           Call("adjust_proposal_to_budget", 0, "none", 0, "none", 0)>>
                      \o place_orders(adjusted, first_id, rejected)
                      \o <<Call("create_timestamp", now + order_refresh_time, "none", 0, "none", 0)>>,
          create_timestamp |-> now + order_refresh_time]

\* the positions of the submissions, cancels and timestamp writes in a call log
Submits(cs) == {i \in 1..Len(cs) : cs[i].op \in {"buy", "sell"}}
Cancels(cs) == {i \in 1..Len(cs) : cs[i].op = "cancel"}
CancelledIds(cs) == {cs[i].id : i \in Cancels(cs)}
Stamps(cs) == {i \in 1..Len(cs) : cs[i].op = "create_timestamp"}

\* ---- state machine -------------------------------------------------------
Init ==
    /\ current_timestamp = 0
    /\ ready_to_trade = FALSE
    /\ create_timestamp = 0
    /\ active_orders = {}
    /\ cancel_requested = {}
    /\ next_order_id = 1
    /\ calls = <<>>
    /\ tick = NoTick
    /\ last_reconcile = {}
    /\ eval = NoEval

\* SmartMarketMaker.on_tick, lines 46-55, run at the current clock value
on_tick ==
    IF ~IsDue(create_timestamp, current_timestamp, ready_to_trade)
    THEN /\ tick' = [NoTick EXCEPT !.status = "idle"]
         /\ calls' = <<>>
         /\ UNCHANGED <<current_timestamp, ready_to_trade, create_timestamp,
                        active_orders, cancel_requested, next_order_id,
                        last_reconcile, eval>>
    ELSE \E candles \in CandleSnapshots, ref_price \in PriceInputs,
            balances \in BalanceInputs :
         LET cp == create_proposal(candles, ref_price, balances)
         IN \E budget \in (IF cp.proposal = <<>> THEN {"none"} ELSE BudgetResults) :
            LET adjusted == adjust_proposal_to_budget(cp.proposal, budget)
            IN \E rejected \in SUBSET (1..Len(adjusted)) :
               LET effect == OnTick(active_orders, create_timestamp, current_timestamp,
                                    cp.error, adjusted, next_order_id, rejected)
                   placed == {effect.calls[i].id : i \in Submits(effect.calls)}
                   accepted == placed \ {next_order_id + i - 1 : i \in rejected}
               IN /\ next_order_id + Cardinality(placed) <= MaxOrders + 1
                  /\ calls' = effect.calls
                  /\ create_timestamp' = effect.create_timestamp
                  /\ active_orders' = active_orders \cup accepted
                  /\ cancel_requested' = active_orders \cap CancelledIds(effect.calls)
                  /\ next_order_id' = next_order_id + Cardinality(placed)
                  /\ last_reconcile' = IF Stamps(effect.calls) # {}
                                       THEN {current_timestamp} ELSE last_reconcile
                  /\ tick' = [status |-> IF cp.error = "none" THEN "done" ELSE "raised",
                              error |-> cp.error,
                              candles |-> candles.n,
                              data_available |-> ref_price # Unavailable
                                                  /\ balances.base # Unavailable
                                                  /\ balances.quote # Unavailable,
                              rsi |-> get_candles_with_indicators(candles).RSI_14,
                              budget |-> budget,
                              proposal |-> cp.proposal,
                              adjusted |-> adjusted,
                              rejected |-> rejected,
                              active0 |-> active_orders]
                  /\ UNCHANGED <<current_timestamp, ready_to_trade, eval>>

\* the framework's clock moves to the next tick
AdvanceClock ==
    /\ current_timestamp < MaxTime
    /\ current_timestamp' = current_timestamp + 1
    /\ tick' = NoTick
    /\ calls' = <<>>
    /\ UNCHANGED <<ready_to_trade, create_timestamp, active_orders,
                   cancel_requested, next_order_id, last_reconcile, eval>>

\* the framework's readiness flag changes
SetReady ==
    /\ ready_to_trade' = ~ready_to_trade
    /\ UNCHANGED <<current_timestamp, create_timestamp, active_orders,
                   cancel_requested, next_order_id, calls, tick,
                   last_reconcile, eval>>

\* the connector ends an order: filled, cancel acknowledged, or failed
ConnectorClose ==
    \E id \in active_orders :
        /\ active_orders' = active_orders \ {id}
        /\ cancel_requested' = cancel_requested \ {id}
        /\ UNCHANGED <<current_timestamp, ready_to_trade, create_timestamp,
                       next_order_id, calls, tick, last_reconcile, eval>>

Next == on_tick \/ AdvanceClock \/ SetReady \/ ConnectorClose

Spec == Init /\ [][Next]_vars

TypeOK ==
    /\ current_timestamp \in 0..MaxTime
    /\ ready_to_trade \in BOOLEAN
    /\ create_timestamp \in 0..(MaxTime + order_refresh_time)
    /\ active_orders \subseteq 1..MaxOrders
    /\ cancel_requested \subseteq active_orders
    /\ next_order_id \in 1..(MaxOrders + 1)
    /\ tick.status \in {"none", "idle", "done", "raised"}
    /\ last_reconcile \subseteq 0..MaxTime

\* ---- ticks that keep arriving -------------------------------------------
\* the strategy becomes ready and stays ready
BecomeReady == ~ready_to_trade /\ SetReady

NextLive == on_tick \/ AdvanceClock \/ BecomeReady \/ ConnectorClose

\* the clock keeps moving, the connectors come up, and every clock value that
\* stays current gets its on_tick
LiveSpec ==
    Init /\ [][NextLive]_vars
         /\ WF_vars(AdvanceClock) /\ WF_vars(BecomeReady) /\ WF_vars(on_tick)

\* ---- the methods on their own -------------------------------------------
\* arguments for one evaluation of a method: volatilities 0, 0.0002, ... in
\* units of 1e-5, balances and prices that put the inventory ratio on, below
\* and above 0.2 and 0.8, and every candle count up to the bound
VolatilityPoints == {20 * k : k \in 0..MaxVolatilitySteps}
PricePoints == {1, 3, 2000}
BasePoints == 0..MaxBalance
QuotePoints == {k * u : k \in 0..MaxBalance, u \in {1, 2000}}
AllCandleSnapshots ==
    {[n |-> k, rsi |-> r, vol |-> v] :
        k \in 0..MaxCandles, r \in RsiValues, v \in {0, 200, 800}}

\* dynamic_spread(volatility), lines 63-64
eval_dynamic_spread ==
    /\ eval = NoEval
    /\ \E v \in VolatilityPoints :
          eval' = [fn |-> "dynamic_spread", args |-> <<v>>, out |-> dynamic_spread(v)]
    /\ UNCHANGED <<current_timestamp, ready_to_trade, create_timestamp, active_orders,
                   cancel_requested, next_order_id, calls, tick, last_reconcile>>

\* the order size of create_proposal, lines 82-91
eval_order_amount ==
    /\ eval = NoEval
    /\ \E b \in BasePoints, q \in QuotePoints, p \in PricePoints :
          eval' = [fn |-> "order_amount", args |-> <<b, q, p>>,
                   out |-> order_amount(b, q, p)]
    /\ UNCHANGED <<current_timestamp, ready_to_trade, create_timestamp, active_orders,
                   cancel_requested, next_order_id, calls, tick, last_reconcile>>

\* get_candles_with_indicators(), lines 57-61, and the latest row of line 73
eval_get_candles_with_indicators ==
    /\ eval = NoEval
    /\ \E c \in AllCandleSnapshots :
          eval' = [fn |-> "get_candles_with_indicators", args |-> c,
                   out |-> get_candles_with_indicators(c)]
    /\ UNCHANGED <<current_timestamp, ready_to_trade, create_timestamp, active_orders,
                   cancel_requested, next_order_id, calls, tick, last_reconcile>>

\* create_proposal(), lines 66-106
eval_create_proposal ==
    /\ eval = NoEval
    /\ \E c \in AllCandleSnapshots, p \in PricePoints \cup {Unavailable},
          bal \in BalanceInputs :
          eval' = [fn |-> "create_proposal",
                   args |-> [candles |-> c, ref_price |-> p, balances |-> bal],
                   out |-> create_proposal(c, p, bal)]
    /\ UNCHANGED <<current_timestamp, ready_to_trade, create_timestamp, active_orders,
                   cancel_requested, next_order_id, calls, tick, last_reconcile>>

NextPure ==
    \/ eval_dynamic_spread
    \/ eval_order_amount
    \/ eval_get_candles_with_indicators
    \/ eval_create_proposal

SpecPure == Init /\ [][NextPure]_vars

\* ---- vocabulary of the properties ----------------------------------------

\* the latest on_tick of the current clock value passed the guard of line 47
DueTick == tick.status \in {"done", "raised"}
\* a step of on_tick (one that is not a repetition leaving everything as it was)
TickStep == tick' # tick /\ tick'.status # "none"
\* a step that touches neither the connector nor the refresh timestamp
NoOpStep ==
    /\ tick'.status = "idle"
    /\ calls' = <<>>
    /\ UNCHANGED <<current_timestamp, ready_to_trade, create_timestamp,
                   active_orders, cancel_requested, next_order_id>>

\* C1: in every due tick the calls come in the order cancel (one for every
\* order active at the start of the tick), create_proposal, budget adjustment,
\* submissions, refresh-timestamp write; a tick that create_proposal aborts
\* performs a prefix of that sequence; no submit precedes a cancel
C1_CancelProposeSubmitStamp ==
    DueTick =>
        LET k == Cardinality(tick.active0)
        IN /\ Len(calls) > k
           /\ Cancels(calls) = 1..k
           /\ CancelledIds(calls) = tick.active0
           /\ calls[k + 1].op = "create_proposal"
           /\ \A i \in Submits(calls) : \A j \in Cancels(calls) : j < i
           /\ \A i \in Submits(calls) :
                 /\ calls[k + 2].op = "adjust_proposal_to_budget"
                 /\ i > k + 2
           /\ \A i \in Stamps(calls) :
                 /\ i = Len(calls)
                 /\ \A j \in Submits(calls) : j < i
           /\ tick.status = "done" =>
                 /\ Cardinality(Stamps(calls)) = 1
                 /\ Cardinality(Submits(calls)) = Len(tick.adjusted)
                 /\ Len(calls) = k + 2 + Len(tick.adjusted) + 1
C1_Witness ==
    /\ tick.status = "done"
    /\ tick.active0 # {}
    /\ Len(tick.adjusted) = 2
    /\ Cardinality(Submits(calls)) = 2

\* C2: a tick while current_timestamp < create_timestamp does nothing (no
\* cancel, no submit, refresh timestamp unchanged); a tick of a ready strategy
\* at current_timestamp = create_timestamp is due
C2_EarlyTickNoOpEqualIsDue ==
    [][ TickStep =>
          /\ current_timestamp < create_timestamp => NoOpStep
          /\ (ready_to_trade /\ current_timestamp = create_timestamp) =>
                /\ tick'.status \in {"done", "raised"}
                /\ cancel_requested' = active_orders ]_vars
C2_Witness ==
    /\ tick.status = "idle"
    /\ ready_to_trade
    /\ current_timestamp < create_timestamp
    /\ active_orders # {}
    /\ cancel_requested = {}

\* C3: a tick while ready_to_trade is false does nothing whatever the time
\* is, so a refresh that was due stays due: the tick of a ready strategy with
\* create_timestamp <= current_timestamp passes the guard
C3_NotReadyTickNoOp ==
    [][ TickStep =>
          /\ ~ready_to_trade => NoOpStep
          /\ (ready_to_trade /\ create_timestamp <= current_timestamp) =>
                tick'.status \in {"done", "raised"} ]_vars
C3_Witness ==
    /\ tick.status = "idle"
    /\ ~ready_to_trade
    /\ create_timestamp <= current_timestamp
    /\ current_timestamp > 0

\* C4 (as stated): after every due tick processed at time now the refresh
\* timestamp is now + order_refresh_time
C4_EveryDueTickAdvances ==
    DueTick => create_timestamp = current_timestamp + order_refresh_time

\* C5: when the budget checker empties a two-intent proposal, the tick submits
\* nothing, has called cancel for every order active at its start, and has set
\* the refresh timestamp to now + order_refresh_time
C5_BudgetEmpty ==
    (DueTick /\ Len(tick.proposal) = 2 /\ tick.adjusted = <<>>) =>
        /\ tick.status = "done"
        /\ Submits(calls) = {}
        /\ CancelledIds(calls) = tick.active0
        /\ create_timestamp = current_timestamp + order_refresh_time
C5_Witness ==
    /\ tick.status = "done"
    /\ Len(tick.proposal) = 2
    /\ tick.budget = "empty"
    /\ tick.adjusted = <<>>
    /\ tick.active0 # {}

\* C6: with at least rsi_length + 1 candles and price and balances available,
\* create_proposal returns the empty proposal exactly when the RSI is above 75
\* or below 25; at 25 and at 75 it returns the two intents
C6_TrendFilterStrict ==
    (DueTick /\ tick.candles > rsi_length /\ tick.data_available) =>
        /\ tick.error = "none"
        /\ tick.proposal = <<>> <=> (tick.rsi > 75 \/ tick.rsi < 25)
        /\ tick.proposal # <<>> => Len(tick.proposal) = 2
        /\ tick.rsi \in {25, 75} => Len(tick.proposal) = 2
C6_Witness ==
    /\ tick.status = "done"
    /\ tick.candles > rsi_length
    /\ tick.data_available
    /\ tick.rsi = 75
    /\ Len(tick.proposal) = 2

\* C7: a due tick whose proposal the trend filter suppresses cancels the
\* orders active at its start, submits nothing and sets the refresh timestamp
\* to now + order_refresh_time; and while current_timestamp is below
\* create_timestamp no step places an order
C7_SuppressedTickConsumed ==
    [][ /\ (TickStep /\ tick'.status = "done" /\ tick'.rsi # NaN
              /\ (tick'.rsi > 75 \/ tick'.rsi < 25)) =>
                /\ tick'.proposal = <<>>
                /\ Submits(calls') = {}
                /\ CancelledIds(calls') = active_orders
                /\ next_order_id' = next_order_id
                /\ create_timestamp' = current_timestamp + order_refresh_time
        /\ current_timestamp < create_timestamp =>
                /\ next_order_id' = next_order_id
                /\ active_orders' \subseteq active_orders ]_vars
C7_Witness ==
    /\ tick.status = "done"
    /\ tick.rsi = 76
    /\ tick.proposal = <<>>
    /\ tick.active0 # {}
    /\ create_timestamp = current_timestamp + order_refresh_time

\* C8 (as stated): on a due tick with too few candles for the indicators,
\* create_proposal returns the empty proposal and no order is submitted
C8_NotReadyGivesEmptyProposal ==
    (DueTick /\ tick.candles <= rsi_length) =>
        /\ tick.error = "none"
        /\ tick.proposal = <<>>
        /\ Submits(calls) = {}

\* C9 (as stated): on a due tick with the price or a balance unavailable,
\* create_proposal returns the empty proposal and no order is submitted
C9_UnavailableGivesEmptyProposal ==
    (DueTick /\ tick.candles > rsi_length /\ ~tick.data_available) =>
        /\ tick.error = "none"
        /\ tick.proposal = <<>>
        /\ Submits(calls) = {}

\* C10 (as stated): every due tick completes; a tick that hits a failure mode
\* (indicators not ready, price or balance unavailable, budget insufficient)
\* places no order and sets the refresh timestamp to now + order_refresh_time
C10_NoFailureIsFatal ==
    DueTick =>
        /\ tick.status = "done"
        /\ (tick.candles <= rsi_length \/ ~tick.data_available
              \/ tick.budget = "empty") =>
                /\ Submits(calls) = {}
                /\ create_timestamp = current_timestamp + order_refresh_time

\* the submissions of a call log, in the order they were made
SubmitSeq(cs) == SetToSeq(Submits(cs))

\* C11: when the connector fails the BUY submission of a two-intent proposal,
\* the SELL intent is still submitted after it, each intent is submitted once
\* (no retry), no cancel follows the submissions (no roll-back of the sibling)
\* and the refresh timestamp is now + order_refresh_time
C11_FailedBuyDoesNotBlockSell ==
    (DueTick /\ Len(tick.adjusted) = 2 /\ 1 \in tick.rejected) =>
        LET sub == SubmitSeq(calls)
        IN /\ Len(sub) = 2
           /\ calls[sub[1]].op = "buy"
           /\ calls[sub[2]].op = "sell"
           /\ calls[sub[1]].id # calls[sub[2]].id
           /\ \A j \in Cancels(calls) : j < sub[1]
           /\ Stamps(calls) = {Len(calls)}
           /\ create_timestamp = current_timestamp + order_refresh_time
C11_Witness ==
    /\ tick.status = "done"
    /\ Len(tick.adjusted) = 2
    /\ tick.rejected = {1}
    /\ Cardinality(Submits(calls)) = 2
    /\ calls[SubmitSeq(calls)[2]].id \in active_orders

\* C12: the proposal of every due tick holds 0 or 2 intents; two intents are a
\* BUY followed by a SELL for ETH-USDT, both LIMIT and maker, with the same
\* amount; with the all-or-none budget checker a tick submits 0 or 2 orders
C12_ZeroOrTwoIntents ==
    DueTick =>
        /\ Len(tick.proposal) \in {0, 2}
        /\ Len(tick.proposal) = 2 =>
              /\ tick.proposal[1].order_side = "BUY"
              /\ tick.proposal[2].order_side = "SELL"
              /\ \A i \in 1..2 :
                    /\ tick.proposal[i].trading_pair = "ETH-USDT"
                    /\ tick.proposal[i].order_type = "LIMIT"
                    /\ tick.proposal[i].is_maker
              /\ tick.proposal[1].amount = tick.proposal[2].amount
        /\ Cardinality(Submits(calls)) \in {0, 2}
C12_Witness ==
    /\ tick.status = "done"
    /\ Len(tick.proposal) = 2
    /\ tick.candles = rsi_length
    /\ Cardinality(Submits(calls)) = 2

\* C13: every intent that survives the budget checker is submitted exactly
\* once in its tick, a BUY through buy() and a SELL through sell(), with the
\* pair, amount, order type and price of the intent
C13_SurvivorsSubmittedUnchanged ==
    tick.status = "done" =>
        LET sub == SubmitSeq(calls)
        IN /\ Len(sub) = Len(tick.adjusted)
           /\ \A i \in 1..Len(sub) :
                 /\ calls[sub[i]].op = "buy" <=> tick.adjusted[i].order_side = "BUY"
                 /\ calls[sub[i]].op = "sell" <=> tick.adjusted[i].order_side = "SELL"
                 /\ calls[sub[i]].trading_pair = tick.adjusted[i].trading_pair
                 /\ calls[sub[i]].amount = tick.adjusted[i].amount
                 /\ calls[sub[i]].order_type = tick.adjusted[i].order_type
                 /\ calls[sub[i]].price = tick.adjusted[i].price
           /\ \A i, j \in 1..Len(sub) : i # j => calls[sub[i]].id # calls[sub[j]].id
C13_Witness ==
    /\ tick.status = "done"
    /\ tick.budget = "reduced"
    /\ Len(tick.adjusted) = 2
    /\ Cardinality(Submits(calls)) = 2

\* C14: for every volatility >= 0 dynamic_spread returns
\* clamp(0.001 + 0.5 * volatility, 0.0005, 0.005): a value in [0.0005, 0.005],
\* 0.001 at volatility 0, 0.002 at 0.002, and 0.005 from 0.008 on
C14_SpreadClamped ==
    eval.fn = "dynamic_spread" =>
        LET v == eval.args[1]
            raw == 100 + v \div 2
        IN /\ eval.out = IF raw < 50 THEN 50 ELSE IF raw > 500 THEN 500 ELSE raw
           /\ eval.out >= 50 /\ eval.out <= 500
           /\ v = 0 => eval.out = 100
           /\ v = 200 => eval.out = 200
           /\ v >= 800 => eval.out = 500
C14_Witness ==
    /\ eval.fn = "dynamic_spread"
    /\ eval.args[1] > 800
    /\ eval.out = 500

\* C15: for every reference price p > 0 a two-intent proposal has
\* buy price = p * (1 - spread) and sell price = p * (1 + spread), with
\* buy price < p < sell price
C15_QuotesAroundReference ==
    (eval.fn = "create_proposal" /\ Len(eval.out.proposal) = 2
       /\ eval.args.ref_price > 0) =>
        LET p == eval.args.ref_price
            h == dynamic_spread(eval.args.candles.vol)
            buy == eval.out.proposal[1]
            sell == eval.out.proposal[2]
        IN /\ buy.order_side = "BUY" /\ sell.order_side = "SELL"
           /\ buy.price = p * (SpreadScale - h)
           /\ sell.price = p * (SpreadScale + h)
           /\ buy.price < p * SpreadScale
           /\ p * SpreadScale < sell.price
           /\ buy.price < sell.price
C15_Witness ==
    /\ eval.fn = "create_proposal"
    /\ Len(eval.out.proposal) = 2
    /\ eval.args.ref_price = 2000
    /\ eval.args.candles.vol = 200
    /\ eval.out.proposal[1].price = 199600000
    /\ eval.out.proposal[2].price = 200400000

\* C16 (as stated): the order amount is half the base order amount when the
\* inventory ratio is above 0.8 or below 0.2 and the full base order amount
\* otherwise, also at a ratio of exactly 0.2 or 0.8 and at a total value of 0
C16_AmountByInventoryRatio ==
    eval.fn = "order_amount" =>
        LET base_value == eval.args[1] * eval.args[3]
            total_value == eval.args[2] + base_value
        IN eval.out = IF total_value > 0
                         /\ (5 * base_value > 4 * total_value
                               \/ 5 * base_value < total_value)
                      THEN 5 ELSE 10

\* C17: with fewer than 15 candles the RSI of the latest row is absent or NaN
\* and from 15 candles on it is the computed value; the volatility of the
\* latest row is NaN with fewer than 10 candles and the computed value from
\* 10 candles on
C17_IndicatorReadiness ==
    eval.fn = "get_candles_with_indicators" =>
        LET n == eval.args.n
        IN /\ n < 15 => (~eval.out.has_rsi \/ eval.out.RSI_14 = NaN)
           /\ n >= 15 => (eval.out.has_rsi /\ eval.out.RSI_14 = eval.args.rsi)
           /\ n < 10 => eval.out.volatility = NaN
           /\ n >= 10 => eval.out.volatility = eval.args.vol
C17_Witness ==
    /\ eval.fn = "get_candles_with_indicators"
    /\ eval.args.n = 14
    /\ eval.out.has_rsi
    /\ eval.out.RSI_14 = NaN
    /\ eval.out.volatility # NaN

\* C18: a due tick that reaches the refresh-timestamp write comes at least
\* order_refresh_time = 15 after the previous one, whatever ticks and
\* readiness changes lie between; as long as none has completed, the tick of
\* a ready strategy is due
C18_ReconcilesFifteenApart ==
    [][ TickStep =>
          /\ tick'.status = "done" =>
                \A t \in last_reconcile : current_timestamp >= t + 15
          /\ (ready_to_trade /\ last_reconcile = {}) =>
                tick'.status \in {"done", "raised"} ]_vars
C18_Witness ==
    /\ tick.status = "done"
    /\ tick.active0 # {}
    /\ current_timestamp = 15
    /\ last_reconcile = {15}
    /\ create_timestamp = 30

\* C19: after every due tick each order that was active at its start and is
\* still active has a cancel issued, so the active orders without a cancel
\* are among those the tick placed and are at most 2
C19_StaleOrdersCancelled ==
    DueTick =>
        LET placed == {calls[i].id : i \in Submits(calls)}
        IN /\ \A id \in tick.active0 \cap active_orders : id \in cancel_requested
           /\ (active_orders \ cancel_requested) \subseteq placed
           /\ Cardinality(active_orders \ cancel_requested) <= 2
C19_Witness ==
    /\ tick.status = "done"
    /\ Cardinality(tick.active0) = 2
    /\ tick.active0 \subseteq cancel_requested
    /\ Cardinality(active_orders \ cancel_requested) = 2

\* C20: create_timestamp never decreases and never exceeds
\* current_timestamp + 15, and when the clock keeps moving and the strategy
\* stays ready every completed reconcile at time t is followed by a tick that
\* passes the guard at t + 15 or later
C20_NeverLockedOut ==
    /\ [](create_timestamp <= current_timestamp + 15)
    /\ [][create_timestamp' >= create_timestamp]_vars
    /\ \A t \in 0..(MaxTime - order_refresh_time) :
          (last_reconcile = {t}) ~> (DueTick /\ current_timestamp >= t + 15)
C20_Witness ==
    /\ tick.status = "done"
    /\ current_timestamp >= 15
    /\ next_order_id > 1
    /\ Submits(calls) = {}
    /\ last_reconcile = {current_timestamp}
    /\ create_timestamp = current_timestamp + 15

====
